---- MODULE Spec2Model ----
(***************************************************************************)
(* ChatCompletionClientBase                                                *)
(* (python/semantic_kernel/connectors/ai/chat_completion_client_base.py):  *)
(* _prepare_chat_history_for_request, run by several calls on one client,  *)
(* and the streaming contract of complete_chat_stream.                     *)
(*                                                                         *)
(* An Optional[T] value is a set with at most one element: {} is None and  *)
(* {v} is the value v.  A dict is a function from its keys to its values.  *)
(***************************************************************************)
EXTENDS Integers, Sequences, FiniteSets, TLC

VARIABLES
    chat_history,       \* chat_history.messages, the list every call reads
    pc,                 \* pc[c]: where call c of the method stands
    index,              \* index[c]: position of the for loop of call c
    prepared_messages,  \* prepared_messages[b]: the list a call appends to
    result,             \* result[c]: the list call c returned
    consumer,           \* the consumer of the stream
    connection,         \* the provider connection behind the stream
    yielded,            \* the chunks the stream has yielded so far
    streamError         \* an error was raised to the consumer of the stream

vars == <<chat_history, pc, index, prepared_messages, result,
          consumer, connection, yielded, streamError>>

normalizerVars == <<chat_history, pc, index, prepared_messages, result>>
streamVars == <<consumer, connection, yielded, streamError>>

\* ------------------------------------------------------------------ bounds

MaxLen == 2
NumCalls == 2
MaxChunks == 4

Calls == 1..NumCalls

\* ------------------------------------------------------------ data model

None == {}
Some(v) == {v}
Val(o) == CHOOSE v \in o : TRUE
Opt(S) == {None} \cup {Some(v) : v \in S}

SYSTEM == "system"
USER == "user"
ASSISTANT == "assistant"
TOOL == "tool"
ChatRole == {SYSTEM, USER, ASSISTANT, TOOL}

OptionalFields ==
    {"content", "ai_model_id", "inner_content", "encoding", "choice_index", "metadata"}
Fields == {"role"} \cup OptionalFields

MetaKeys == {"tool_call_id", "function_name", "extra"}
MetaValuesOf(k) ==
    IF k = "tool_call_id" THEN {"call_1", "abc"}
    ELSE IF k = "function_name" THEN {"add", "f"}
    ELSE {"x"}
MetaValues == UNION {MetaValuesOf(k) : k \in MetaKeys}
MetadataMaps ==
    UNION {{m \in [K -> MetaValues] : \A k \in K : m[k] \in MetaValuesOf(k)} :
           K \in SUBSET MetaKeys}

ChatMessageContent ==
    [role : ChatRole,
     content : Opt({"42"}),
     ai_model_id : Opt({"gpt-4"}),
     inner_content : Opt({"raw"}),
     encoding : Opt({"utf-8"}),
     choice_index : Opt({0}),
     metadata : Opt(MetadataMaps)]

Message(role, content, ai_model_id, encoding, choice_index, metadata) ==
    [role |-> role, content |-> content, ai_model_id |-> ai_model_id,
     inner_content |-> None, encoding |-> encoding,
     choice_index |-> choice_index, metadata |-> metadata]

\* The messages the histories of more than one message are made of.
SampleMessages ==
    {Message(SYSTEM, Some("42"), None, None, None, None),
     Message(USER, Some("42"), None, Some("utf-8"), None,
             Some([extra |-> "x"])),
     Message(ASSISTANT, None, Some("gpt-4"), None, Some(0), None),
     Message(TOOL, Some("42"), None, Some("utf-8"), None,
             Some([tool_call_id |-> "call_1", function_name |-> "add"])),
     Message(TOOL, Some("42"), Some("gpt-4"), None, None,
             Some([function_name |-> "f"])),
     Message(TOOL, None, None, None, None,
             Some([tool_call_id |-> "abc"]))}

SeqsUpTo(S, n) == UNION {[1..k -> S] : k \in 0..n}

Histories == SeqsUpTo(SampleMessages, MaxLen) \cup {<<m>> : m \in ChatMessageContent}

\* ------------------------------------------------- the normalizer's steps

\* message.model_dump(exclude_none=True, exclude=[...]): a new dict of the
\* fields that are not None and not excluded.
model_dump(message, exclude) ==
    LET keys == {f \in Fields \ exclude :
                    IF f = "role" THEN TRUE ELSE message[f] # None}
    IN [f \in keys |-> IF f = "role" THEN message.role ELSE Val(message[f])]

pop(dump, key) == [k \in DOMAIN dump \ {key} |-> dump[k]]

setitem(dump, key, value) ==
    [k \in DOMAIN dump \cup {key} |-> IF k = key THEN value ELSE dump[k]]

ToolExclude == {"encoding"}
OtherExclude == {"metadata", "encoding", "ai_model_id", "inner_content", "choice_index"}

\* The condition of line 86.
HasToolCallId(dump) ==
    "metadata" \in DOMAIN dump /\ "tool_call_id" \in DOMAIN dump["metadata"]

\* Line 88 reads dump["metadata"]["function_name"] with no guard of its own.
RaisesKeyError(message) ==
    /\ message.role = TOOL
    /\ LET dump == model_dump(message, ToolExclude)
       IN HasToolCallId(dump) /\ "function_name" \notin DOMAIN dump["metadata"]

\* The promotion without line 89: metadata stays in the record.
ToolDumpKeepsMetadata(message) ==
    LET dump == model_dump(message, ToolExclude)
    IN IF HasToolCallId(dump)
       THEN LET d1 == setitem(dump, "tool_call_id", dump["metadata"]["tool_call_id"])
            IN setitem(d1, "name", dump["metadata"]["function_name"])
       ELSE dump

\* Line 89 one level out: metadata is popped whether or not it was promoted.
ToolDumpPopsAlways(message) ==
    LET dump == model_dump(message, ToolExclude)
    IN IF HasToolCallId(dump)
       THEN LET d1 == setitem(dump, "tool_call_id", dump["metadata"]["tool_call_id"])
                d2 == setitem(d1, "name", dump["metadata"]["function_name"])
            IN pop(d2, "metadata")
       ELSE pop(dump, "metadata")

\* The tool branch dumping with the exclusions of the other branch (metadata kept).
ToolDumpExcludesModelFields(message) ==
    LET dump == model_dump(message,
                           {"encoding", "ai_model_id", "inner_content", "choice_index"})
    IN IF HasToolCallId(dump)
       THEN LET d1 == setitem(dump, "tool_call_id", dump["metadata"]["tool_call_id"])
                d2 == setitem(d1, "name", dump["metadata"]["function_name"])
            IN pop(d2, "metadata")
       ELSE dump

\* The function name written under the metadata's key instead of "name".
ToolDumpFunctionNameKey(message) ==
    LET dump == model_dump(message, ToolExclude)
    IN IF HasToolCallId(dump)
       THEN LET d1 == setitem(dump, "tool_call_id", dump["metadata"]["tool_call_id"])
                d2 == setitem(d1, "function_name", dump["metadata"]["function_name"])
            IN pop(d2, "metadata")
       ELSE dump

ToolDump(message) ==
    LET dump == model_dump(message, ToolExclude)
    IN IF HasToolCallId(dump)
       THEN LET d1 == setitem(dump, "tool_call_id", dump["metadata"]["tool_call_id"])
                d2 == setitem(d1, "name", dump["metadata"]["function_name"])
            IN pop(d2, "metadata")
       ELSE dump

\* The other branch excluding only metadata and encoding.
OtherDumpKeepsModelFields(message) == model_dump(message, {"metadata", "encoding"})

OtherDump(message) == model_dump(message, OtherExclude)

\* The promotion done on the message's own metadata instead of on the dump.
MessageAfterDumpInPlace(message) ==
    IF message.role = TOOL /\ HasToolCallId(model_dump(message, ToolExclude))
    THEN [message EXCEPT !.metadata = None]
    ELSE message

\* The message after its record was made: model_dump builds a new dict and
\* lines 87-89 write to that dict, so the message is what it was.
MessageAfterDump(message) == message

\* prepared_messages kept on the client: one list for all calls.
SharedBuffer(c) == 1

\* prepared_messages is a local of the call (line 82): each call has its own.
BufferOf(c) == c

Current(c) == chat_history[index[c]]

Call(c) ==
    /\ pc[c] \in {"idle", "done", "raised"}
    /\ pc' = [pc EXCEPT ![c] = "loop"]
    /\ index' = [index EXCEPT ![c] = 1]
    /\ prepared_messages' = [prepared_messages EXCEPT ![BufferOf(c)] = <<>>]
    /\ UNCHANGED <<chat_history, result, streamVars>>

PrepareToolMessage(c) ==
    /\ pc[c] = "loop"
    /\ index[c] <= Len(chat_history)
    /\ Current(c).role = TOOL
    /\ ~RaisesKeyError(Current(c))
    /\ prepared_messages' =
          [prepared_messages EXCEPT ![BufferOf(c)] = Append(@, ToolDump(Current(c)))]
    /\ chat_history' = [chat_history EXCEPT ![index[c]] = MessageAfterDump(@)]
    /\ index' = [index EXCEPT ![c] = @ + 1]
    /\ UNCHANGED <<pc, result, streamVars>>

RaiseKeyError(c) ==
    /\ pc[c] = "loop"
    /\ index[c] <= Len(chat_history)
    /\ RaisesKeyError(Current(c))
    /\ pc' = [pc EXCEPT ![c] = "raised"]
    /\ UNCHANGED <<chat_history, index, prepared_messages, result, streamVars>>

PrepareOtherMessage(c) ==
    /\ pc[c] = "loop"
    /\ index[c] <= Len(chat_history)
    /\ Current(c).role # TOOL
    /\ prepared_messages' =
          [prepared_messages EXCEPT ![BufferOf(c)] = Append(@, OtherDump(Current(c)))]
    /\ chat_history' = [chat_history EXCEPT ![index[c]] = MessageAfterDump(@)]
    /\ index' = [index EXCEPT ![c] = @ + 1]
    /\ UNCHANGED <<pc, result, streamVars>>

Return(c) ==
    /\ pc[c] = "loop"
    /\ index[c] > Len(chat_history)
    /\ pc' = [pc EXCEPT ![c] = "done"]
    /\ result' = [result EXCEPT ![c] = prepared_messages[BufferOf(c)]]
    /\ UNCHANGED <<chat_history, index, prepared_messages, streamVars>>

StreamIdle ==
    /\ consumer = "idle"
    /\ connection = "closed"
    /\ yielded = <<>>
    /\ streamError = FALSE

Init ==
    /\ chat_history \in Histories
    /\ pc = [c \in Calls |-> "idle"]
    /\ index = [c \in Calls |-> 1]
    /\ prepared_messages = [c \in Calls |-> <<>>]
    /\ result = [c \in Calls |-> <<>>]
    /\ StreamIdle

Next ==
    \E c \in Calls :
        \/ Call(c)
        \/ PrepareToolMessage(c)
        \/ RaiseKeyError(c)
        \/ PrepareOtherMessage(c)
        \/ Return(c)

Spec == Init /\ [][Next]_vars

\* ------------------------------------------------ the streaming contract

\* A yielded element is a list of choices; two kinds suffice to tell them apart.
ChunkValues == {<<"a">>, <<"a", "b">>}

\* No release when the consumer stops: the connection stays as it is.
LeakOnExit(conn) == conn

\* Leaving the scope that holds the connection handle releases it.
ReleaseOnExit(conn) == "released"

StartStream ==
    /\ consumer = "idle"
    /\ consumer' = "iterating"
    /\ connection' = "open"
    /\ UNCHANGED <<yielded, streamError, normalizerVars>>

YieldChunk ==
    /\ consumer = "iterating"
    /\ connection = "open"
    /\ Len(yielded) < MaxChunks
    /\ \E chunk \in ChunkValues : yielded' = Append(yielded, chunk)
    /\ UNCHANGED <<consumer, connection, streamError, normalizerVars>>

ProviderCloses ==
    /\ consumer = "iterating"
    /\ connection = "open"
    /\ consumer' = "exhausted"
    /\ connection' = ReleaseOnExit(connection)
    /\ UNCHANGED <<yielded, streamError, normalizerVars>>

ConnectionFails ==
    /\ consumer = "iterating"
    /\ connection = "open"
    /\ consumer' = "failed"
    /\ streamError' = TRUE
    /\ connection' = ReleaseOnExit(connection)
    /\ UNCHANGED <<yielded, normalizerVars>>

AbandonIteration ==
    /\ consumer = "iterating"
    /\ consumer' = "abandoned"
    /\ connection' = ReleaseOnExit(connection)
    /\ UNCHANGED <<yielded, streamError, normalizerVars>>

InitStream ==
    /\ chat_history = <<>>
    /\ pc = [c \in Calls |-> "idle"]
    /\ index = [c \in Calls |-> 1]
    /\ prepared_messages = [c \in Calls |-> <<>>]
    /\ result = [c \in Calls |-> <<>>]
    /\ StreamIdle

NextStream ==
    \/ StartStream
    \/ YieldChunk
    \/ ProviderCloses
    \/ ConnectionFails
    \/ AbandonIteration

SpecStream == InitStream /\ [][NextStream]_vars

\* ------------------------------------------------------------ properties

NonNullFields(m) == {f \in Fields : IF f = "role" THEN TRUE ELSE m[f] # None}
FieldValue(m, f) == IF f = "role" THEN m.role ELSE Val(m[f])

\* The record a message is to yield, and the list a history is to yield when
\* one call runs alone from start to end.
RecordOf(m) == IF m.role = TOOL THEN ToolDump(m) ELSE OtherDump(m)

RECURSIVE Normalize(_)
Normalize(h) ==
    IF h = <<>> THEN <<>>
    ELSE Append(Normalize(SubSeq(h, 1, Len(h) - 1)), RecordOf(h[Len(h)]))

NormalizeRaises(h) == \E i \in 1..Len(h) : RaisesKeyError(h[i])

\* P holds of every record made so far, paired with the message at its position.
ForAllRecords(P(_, _)) ==
    \A c \in Calls :
        /\ \A i \in 1..Len(prepared_messages[c]) :
              P(chat_history[i], prepared_messages[c][i])
        /\ \A i \in 1..Len(result[c]) : P(chat_history[i], result[c][i])

\* Some call has returned, and P holds of a message and its returned record.
SomeReturnedRecord(P(_, _)) ==
    \E c \in Calls :
        /\ pc[c] = "done"
        /\ \E i \in 1..Len(result[c]) : P(chat_history[i], result[c][i])

HasKeys(m, K) == m.metadata # None /\ K \subseteq DOMAIN Val(m.metadata)

\* C1: for every history, the call returns one record per message, the
\* record at position i being the one made from message i; the empty history
\* returns the empty list.
C1_OrderPreserved ==
    \A c \in Calls :
        pc[c] \in {"done", "raised"} =>
            /\ pc[c] = "done"
            /\ Len(result[c]) = Len(chat_history)
            /\ \A i \in 1..Len(chat_history) : result[c][i] = RecordOf(chat_history[i])

C2_Promoted(m, r) ==
    (m.role = TOOL /\ HasKeys(m, {"tool_call_id", "function_name"})) =>
        /\ "tool_call_id" \in DOMAIN r
        /\ r["tool_call_id"] = Val(m.metadata)["tool_call_id"]
        /\ "name" \in DOMAIN r
        /\ r["name"] = Val(m.metadata)["function_name"]
        /\ "metadata" \notin DOMAIN r

\* C2: a Tool message whose metadata holds tool_call_id and function_name
\* yields a record with tool_call_id and name taken from the metadata and no
\* metadata key.
C2_ToolMetadataPromotion == ForAllRecords(C2_Promoted)

C2_PromotedCase(m, r) ==
    /\ m.role = TOOL
    /\ HasKeys(m, {"tool_call_id", "function_name", "extra"})
    /\ r["tool_call_id"] = "abc"
    /\ r["name"] = "f"

C2_Witness == SomeReturnedRecord(C2_PromotedCase)

C3_FellBack(m, r) ==
    (m.role = TOOL /\ ~HasKeys(m, {"tool_call_id"})) =>
        /\ DOMAIN r = NonNullFields(m) \ {"encoding"}
        /\ \A f \in DOMAIN r : r[f] = FieldValue(m, f)
        /\ "tool_call_id" \notin DOMAIN r
        /\ m.metadata # None =>
              "metadata" \in DOMAIN r /\ r["metadata"] = Val(m.metadata)
        /\ m.metadata = None => "metadata" \notin DOMAIN r

C3_FellBackCase(m, r) ==
    /\ m.role = TOOL
    /\ HasKeys(m, {"function_name", "extra"})
    /\ ~HasKeys(m, {"tool_call_id"})
    /\ "metadata" \in DOMAIN r
    /\ DOMAIN r["metadata"] = {"function_name", "extra"}

FiveExcluded == {"metadata", "encoding", "ai_model_id", "inner_content", "choice_index"}

C4_Stripped(m, r) ==
    m.role # TOOL =>
        /\ DOMAIN r = NonNullFields(m) \ FiveExcluded
        /\ DOMAIN r \cap FiveExcluded = {}
        /\ \A f \in DOMAIN r : r[f] = FieldValue(m, f)

\* C4: a System, User or Assistant message yields exactly its non-null fields
\* other than metadata, encoding, ai_model_id, inner_content and choice_index.
C4_NonToolExclusions == ForAllRecords(C4_Stripped)

C4_StrippedCase(m, r) ==
    /\ m.role = ASSISTANT
    /\ NonNullFields(m) = Fields
    /\ DOMAIN r = {"role", "content"}

C4_Witness == SomeReturnedRecord(C4_StrippedCase)

\* C5: the call never ends in an error: a Tool message whose metadata lacks
\* tool_call_id, function_name or both gets a record by falling back.
C5_NeverRaises == \A c \in Calls : pc[c] # "raised"

C6_Scenario(m) ==
    /\ m.role = TOOL
    /\ NonNullFields(m) = {"role", "content", "metadata"}
    /\ DOMAIN Val(m.metadata) = {"tool_call_id", "function_name"}

C6_ThreeKeys(m, r) ==
    C6_Scenario(m) => DOMAIN r = {"content", "tool_call_id", "name"}

\* C6 as stated: a Tool message with only role, content and a metadata of
\* tool_call_id and function_name yields a record of exactly the keys
\* content, tool_call_id and name.
C6_ScenarioWithoutRole == ForAllRecords(C6_ThreeKeys)

C6_FourKeys(m, r) ==
    C6_Scenario(m) =>
        /\ DOMAIN r = {"role", "content", "tool_call_id", "name"}
        /\ r["role"] = TOOL
        /\ r["content"] = Val(m.content)
        /\ r["tool_call_id"] = Val(m.metadata)["tool_call_id"]
        /\ r["name"] = Val(m.metadata)["function_name"]

\* C6 amended: that record has exactly the keys role, content, tool_call_id
\* and name: role and content as in the message, tool_call_id and name from
\* the metadata.
C6_ScenarioWithRole == ForAllRecords(C6_FourKeys)

C6_ScenarioCase(m, r) ==
    /\ C6_Scenario(m)
    /\ r = [role |-> TOOL, content |-> "42", tool_call_id |-> "call_1", name |-> "add"]

C6_Witness == SomeReturnedRecord(C6_ScenarioCase)

\* C7: no step of any call changes the history: its messages and every field
\* of every message stay what they were.
C7_InputNotMutated == [][chat_history' = chat_history]_vars

C7_PromotedCase(m, r) ==
    /\ m.role = TOOL
    /\ HasKeys(m, {"tool_call_id", "function_name"})
    /\ "metadata" \notin DOMAIN r
    /\ "tool_call_id" \in DOMAIN r

C7_Witness == SomeReturnedRecord(C7_PromotedCase)

\* C8: whatever the interleaving of the calls, each call builds and returns
\* the list it returns when run alone, and ends in an error only if it does
\* so when run alone.
C8_CallsIndependent ==
    \A c \in Calls :
        /\ pc[c] = "loop" =>
              /\ index[c] = Len(prepared_messages[c]) + 1
              /\ prepared_messages[c] = Normalize(SubSeq(chat_history, 1, index[c] - 1))
        /\ pc[c] = "done" =>
              /\ ~NormalizeRaises(chat_history)
              /\ result[c] = Normalize(chat_history)
        /\ pc[c] = "raised" => NormalizeRaises(chat_history)

C8_Witness ==
    /\ Len(chat_history) = 2
    /\ pc[1] = "done"
    /\ pc[2] = "loop"
    /\ index[2] = 2
    /\ Len(result[1]) = 2

\* C9: once the consumer has abandoned the stream, after any number of
\* chunks, the connection is released, no error was raised to the consumer,
\* and the chunks already yielded stay as they are.
C9_StreamingCancellation ==
    /\ [](consumer = "abandoned" => connection = "released" /\ ~streamError)
    /\ [][consumer' = "abandoned" => yielded' = yielded]_vars

C9_Witness ==
    /\ consumer = "abandoned"
    /\ Len(yielded) = 2
    /\ connection = "released"

ToolKept == {"role", "content", "ai_model_id", "inner_content", "choice_index"}

C10_Kept(m, r) ==
    m.role = TOOL =>
        /\ "encoding" \notin DOMAIN r
        /\ \A f \in ToolKept \cap NonNullFields(m) :
              f \in DOMAIN r /\ r[f] = FieldValue(m, f)

\* C10: a Tool message's record never has the key encoding and keeps role,
\* content, ai_model_id, inner_content and choice_index, each with its value,
\* whenever it is not None, promoted or not.
C10_ToolKeepsModelFields == ForAllRecords(C10_Kept)

C10_KeptCase(m, r) ==
    /\ m.role = TOOL
    /\ NonNullFields(m) = Fields
    /\ HasKeys(m, {"tool_call_id", "function_name"})
    /\ {"ai_model_id", "inner_content", "choice_index", "name"} \subseteq DOMAIN r

C10_Witness == SomeReturnedRecord(C10_KeptCase)

====
